---- MODULE Spec2Model ----
(***************************************************************************)
(* Model of src/main.py: the package dependency visualizer.                *)
(*                                                                         *)
(* main() validates its arguments, then either prints the direct           *)
(* dependencies of the root (no --ascii-tree) or builds the full           *)
(* dependency graph with build_full_dependency_graph and renders it with   *)
(* print_ascii_tree (--ascii-tree).  The loop of the builder and the       *)
(* recursion of the renderer are modelled one iteration / one call per     *)
(* step.  Identifiers and the filter are sequences of characters, so that  *)
(* Python's substring test (filter_sub in package) is computed, not        *)
(* assumed.  The glyphs of the tree are written in ASCII here:             *)
(*   CORNER  stands for U+2514 U+2500 U+2500 SPACE  (last sibling)         *)
(*   TEE     stands for U+251C U+2500 U+2500 SPACE  (earlier sibling)      *)
(*   BAR     stands for U+2502 and three spaces                            *)
(*   BLANK   is four spaces                                                *)
(***************************************************************************)
EXTENDS Integers, Sequences, FiniteSets, TLC

\* ------------------------------------------------------------------ bounds

\* The largest number of dependency entries of a whole repository.
MaxEdges == 3

\* The largest number of identifiers the repository cannot resolve.
MaxBad == 1

\* ------------------------------------------------------- identifiers, text

A == <<"A">>
B == <<"B">>
C == <<"C">>

\* The identifiers of the repository.
Ids == {A, B, C}

\* A --package value that is no identifier: not upper case letters in file
\* mode, and with a colon but not three parts in url mode.
Malformed == <<"a", ":">>

Packages == Ids \cup {Malformed}

\* The --filter values: none, or one that names an identifier.
Filters == {<<>>, A, B, C}

UpperLetters == {"A", "B", "C"}

CORNER == "\\-- "
TEE == "|-- "
BAR == "|   "
BLANK == "    "
CYCLE == " (.cycle.)"

SeqsUpTo(S, n) == UNION {[1..k -> S] : k \in 0..n}

\* Python: s in t, for strings.
IsSubstring(s, t) ==
    \E i \in 0..(Len(t) - Len(s)) : SubSeq(t, i + 1, i + Len(s)) = s

\* Python: x in xs, for a list.
InList(x, xs) == \E i \in 1..Len(xs) : xs[i] = x

\* Python: reversed(xs).
Reversed(xs) == [i \in 1..Len(xs) |-> xs[Len(xs) + 1 - i]]

\* Python: package.isalpha() and package.isupper(), on the alphabet used.
IsUpperAlpha(p) == Len(p) > 0 /\ \A i \in 1..Len(p) : p[i] \in UpperLetters

VARIABLES
    package,      \* args.package
    test_mode,    \* args.test_mode: "file" or "url"
    ascii_tree,   \* args.ascii_tree
    filter_sub,   \* args.filter
    repo,         \* the repository: identifier -> its dependency list
    bad,          \* identifiers the repository cannot resolve: absent from the
                  \* test graph (file mode), POM not fetchable (url mode)
    pc,           \* where the program is
    exit_code,    \* -1 while main runs, then main's exit status
    err,          \* what main wrote to stderr before sys.exit(1), or ""
    direct,       \* the "Direct dependencies:" list printed, or <<"unprinted">>
    root_package, \* main's root_package
    graph,        \* the builder's dict, in insertion order: <<[key, deps], ...>>
    stack,        \* the builder's stack
    visited,      \* the builder's visited set
    resolved,     \* the identifiers main and the builder called get_deps_func with
    recorded,     \* the keys assigned in graph, one entry per assignment
    calls,        \* pending calls of print_ascii_tree, next one first
    out,          \* the lines printed by the render main runs (graph mode)
    live_out,     \* the lines printed by a render in live mode
    lookups       \* the identifiers get_deps was called with by the renderers

vars == <<package, test_mode, ascii_tree, filter_sub, repo, bad, pc, exit_code,
          err, direct, root_package, graph, stack, visited, resolved, recorded,
          calls, out, live_out, lookups>>

inputs == <<package, test_mode, ascii_tree, filter_sub, repo, bad>>
builder == <<graph, stack, visited, resolved, recorded>>
renderer == <<calls, out, live_out, lookups>>

Unprinted == <<"unprinted">>

\* ------------------------------------------------------------ filter policy

\* Bug variant: the filter is ignored.
ExcludedNever(f, id) == FALSE

\* filter_sub and filter_sub in package
Excluded(f, id) == f # <<>> /\ IsSubstring(f, id)

\* [d for d in deps if not (filter_sub and filter_sub in d)]
FilterDeps(f, deps) == SelectSeq(deps, LAMBDA d : ~Excluded(f, d))

\* -------------------------------------------------------- dependency source

\* What a call of the source gives: a list, or an exception of some class.
Ok(deps) == [ok |-> TRUE, deps |-> deps, exc |-> ""]
Raised(exc) == [ok |-> FALSE, deps |-> <<>>, exc |-> exc]

\* get_test_deps: graph.get(pkg, []) on the loaded test graph, whose keys are
\* the identifiers that are not in bad.
get_test_deps(pkg) == IF pkg \in bad THEN Ok(<<>>) ELSE Ok(repo[pkg])

\* fetch_dependencies_from_pom: the dependency list of the POM, or RuntimeError.
fetch_dependencies_from_pom(gav) ==
    IF gav \in bad THEN Raised("RuntimeError") ELSE Ok(repo[gav])

\* get_deps_func as main chooses it.
get_deps_func(pkg) ==
    IF test_mode = "file" THEN get_test_deps(pkg)
    ELSE fetch_dependencies_from_pom(pkg)

\* try: deps = get_deps(...)  except Exception: deps = []
OrEmpty(res) == IF res.ok THEN res.deps ELSE <<>>

\* Bug variant: except ValueError, which lets a RuntimeError through.
BuilderCatchesValueError(exc) == exc = "ValueError"

\* except Exception, in build_full_dependency_graph: every exception class
\* the source raises is caught.
BuilderCatches(exc) == TRUE

\* except Exception, in print_ascii_tree.
RendererCatches(exc) == TRUE

\* Bug variant: the error is reported and sys.exit(1) left out.
DirectExitZero(res) == 0

\* main without --ascii-tree: except Exception reports and calls sys.exit(1).
DirectExit(res) == IF res.ok THEN 0 ELSE 1

\* ----------------------------------------------------------- the dict graph

Keys(g) == {g[i].key : i \in 1..Len(g)}

KeyOrder(g) == [i \in 1..Len(g) |-> g[i].key]

\* g.get(k, [])
DictGet(g, k) ==
    IF k \in Keys(g) THEN g[CHOOSE i \in 1..Len(g) : g[i].key = k].deps
    ELSE <<>>

\* g[k] = deps: a new key goes last, an old key keeps its place.
DictSet(g, k, deps) ==
    IF k \in Keys(g)
    THEN [i \in 1..Len(g) |-> IF g[i].key = k THEN [key |-> k, deps |-> deps] ELSE g[i]]
    ELSE Append(g, [key |-> k, deps |-> deps])

\* --------------------------------------------------------------------- Init

\* The repositories over the identifiers S with at most n dependency entries
\* in all: every identifier of S has a list, possibly empty, possibly with
\* repeated entries.
RECURSIVE ReposOver(_, _)
ReposOver(S, n) ==
    IF S = {} THEN {<<>>}
    ELSE LET x == CHOOSE y \in S : TRUE
         IN UNION {{(x :> deps) @@ g : g \in ReposOver(S \ {x}, n - Len(deps))} :
                      deps \in SeqsUpTo(Ids, n)}

Repos == ReposOver(Ids, MaxEdges)

Init ==
    /\ repo \in Repos
    /\ bad \in {s \in SUBSET Ids : Cardinality(s) <= MaxBad /\ \A b \in s : repo[b] = <<>>}
    /\ package \in Packages
    /\ test_mode \in {"file", "url"}
    /\ ascii_tree \in BOOLEAN
    /\ filter_sub \in Filters
    /\ pc = "start"
    /\ exit_code = -1
    /\ err = ""
    /\ direct = Unprinted
    /\ root_package = package
    /\ graph = <<>>
    /\ stack = <<>>
    /\ visited = {}
    /\ resolved = <<>>
    /\ recorded = <<>>
    /\ calls = <<>>
    /\ out = <<>>
    /\ live_out = <<>>
    /\ lookups = <<>>

\* --------------------------------------------------------------------- main

Exit1(msg) ==
    /\ pc' = "exit"
    /\ exit_code' = 1
    /\ err' = msg
    /\ UNCHANGED <<inputs, direct, root_package, builder, renderer>>

\* An exception no handler catches ends the interpreter with status 1.
Uncaught == Exit1("Traceback")

\* After the arguments are accepted: build_full_dependency_graph is entered
\* (graph = {}, stack = [root_package], visited = set()), or the direct
\* dependencies are asked for.
Proceed(root) ==
    /\ pc' = IF ascii_tree THEN "build" ELSE "direct"
    /\ root_package' = root
    /\ stack' = IF ascii_tree THEN <<root>> ELSE <<>>
    /\ UNCHANGED <<inputs, exit_code, err, direct, graph, visited, resolved,
                   recorded, renderer>>

\* main, file mode: the package is checked, the test graph loaded, the root
\* looked for in it.
MainFile ==
    /\ pc = "start"
    /\ test_mode = "file"
    /\ IF ~IsUpperAlpha(package)
       THEN Exit1("package must be uppercase Latin letters")
       ELSE \E loaded \in BOOLEAN :
              IF ~loaded THEN Exit1("load_test_graph")
              ELSE IF package \in bad THEN Exit1("not found in test graph")
              ELSE Proceed(package)

\* main, url mode: resolve_artifact_to_gav gives the root's coordinates or
\* raises.  A coordinate is named by the token of the package it resolves.
MainUrl ==
    /\ pc = "start"
    /\ test_mode = "url"
    /\ IF package = Malformed
       THEN Exit1("Error resolving package")
       ELSE \E found \in BOOLEAN :
              IF ~found THEN Exit1("Error resolving package")
              ELSE Proceed(package)

\* main without --ascii-tree: the root's dependencies are printed as the
\* source gives them, or the error is reported.
MainDirect ==
    /\ pc = "direct"
    /\ LET res == get_deps_func(root_package)
       IN /\ direct' = IF res.ok THEN res.deps ELSE direct
          /\ err' = IF res.ok THEN "" ELSE "Error"
          /\ exit_code' = DirectExit(res)
    /\ resolved' = Append(resolved, root_package)
    /\ pc' = "exit"
    /\ UNCHANGED <<inputs, root_package, graph, stack, visited, recorded, renderer>>

\* ------------------------------------------- build_full_dependency_graph

\* Bug variant: visited.add(current) left out.
MarkVisitedForgotten(vis, current) == vis

\* visited.add(current)
MarkVisited(vis, current) == vis \cup {current}

\* Bug variant: for dep in filtered_deps, without reversed().
PushDepsUnreversed(stk, filtered, vis) ==
    stk \o SelectSeq(filtered, LAMBDA d : d \notin vis)

\* Bug variant: reversed(filtered_deps[:-1]), the last dependency is lost.
PushDepsSkipsLast(stk, filtered, vis) ==
    stk \o SelectSeq(Reversed(SubSeq(filtered, 1, Len(filtered) - 1)),
                     LAMBDA d : d \notin vis)

\* for dep in reversed(filtered_deps): if dep not in visited: stack.append(dep)
PushDeps(stk, filtered, vis) ==
    stk \o SelectSeq(Reversed(filtered), LAMBDA d : d \notin vis)

\* One iteration of the while loop: pop, skip a visited identifier, else mark
\* it, record it (a stub if the filter excludes it) and push its dependencies.
BuildStep ==
    /\ pc = "build"
    /\ stack # <<>>
    /\ LET current == stack[Len(stack)]
           rest == SubSeq(stack, 1, Len(stack) - 1)
           res == get_deps_func(current)
           filtered_deps == FilterDeps(filter_sub, OrEmpty(res))
       IN IF current \in visited
          THEN /\ stack' = rest
               /\ UNCHANGED <<inputs, pc, exit_code, err, direct, root_package,
                              graph, visited, resolved, recorded, renderer>>
          ELSE IF Excluded(filter_sub, current)
          THEN /\ visited' = MarkVisited(visited, current)
               /\ graph' = DictSet(graph, current, <<>>)
               /\ recorded' = Append(recorded, current)
               /\ stack' = rest
               /\ UNCHANGED <<inputs, pc, exit_code, err, direct, root_package,
                              resolved, renderer>>
          ELSE IF ~res.ok /\ ~BuilderCatches(res.exc)
          THEN Uncaught
          ELSE /\ visited' = MarkVisited(visited, current)
               /\ resolved' = Append(resolved, current)
               /\ graph' = DictSet(graph, current, filtered_deps)
               /\ recorded' = Append(recorded, current)
               /\ stack' = PushDeps(rest, filtered_deps, visited')
               /\ UNCHANGED <<inputs, pc, exit_code, err, direct, root_package,
                              renderer>>

\* -------------------------------------------------------- print_ascii_tree

\* connector = corner if is_last else tee
Connector(is_last) == IF is_last THEN CORNER ELSE TEE

\* ext = four spaces if is_last else bar and three spaces
Ext(is_last) == IF is_last THEN BLANK ELSE BAR

\* Bug variant: only a cycle back to the root is seen (package == visited[0]).
InPathRootOnly(pkg, path) == path # <<>> /\ path[1] = pkg

\* package in visited
InPath(pkg, path) == InList(pkg, path)

\* new_visited = visited + [package]
NewVisited(path, pkg) == Append(path, pkg)

\* Bug variant: i == len(deps) with i counted from 0, which no child meets.
IsLastChildOffByOne(i, deps) == i - 1 = Len(deps)

\* is_last_child = (i == len(deps) - 1), i counted from 0; here from 1
IsLastChild(i, deps) == i = Len(deps)

\* print(f"{prefix}{connector}{package}") and its (.cycle.) variant: the
\* prefix is kept as its sequence of four-character units.
Line(call, cycle) ==
    [prefix |-> call.prefix, connector |-> Connector(call.is_last),
     package |-> call.package, cycle |-> cycle]

\* The text of a line, as its sequence of pieces.
Text(line) ==
    line.prefix \o <<line.connector>> \o line.package
        \o (IF line.cycle THEN <<CYCLE>> ELSE <<>>)

\* print_ascii_tree(package) as main calls it: prefix "", is_last True,
\* visited None.
RootCall(pkg) ==
    [package |-> pkg, prefix |-> <<>>, is_last |-> TRUE, visited |-> <<>>]

\* The recursive calls of the for loop, in the order they are made.
ChildCalls(call, deps) ==
    [i \in 1..Len(deps) |->
        [package |-> deps[i],
         prefix |-> Append(call.prefix, Ext(call.is_last)),
         is_last |-> IsLastChild(i, deps),
         visited |-> NewVisited(call.visited, call.package)]]

\* get_deps of a render: get_deps_from_graph (full_graph.get(pkg, [])) in the
\* render main runs, get_deps_func in live mode.
Lookup(mode, pkg) ==
    IF mode = "render" THEN Ok(DictGet(graph, pkg)) ELSE get_deps_func(pkg)

\* One call of print_ascii_tree, up to its recursive calls, which become the
\* next pending calls, before those of the callers' loops.
RenderStep(mode) ==
    /\ pc = mode
    /\ calls # <<>>
    /\ LET call == Head(calls)
           lines == IF mode = "render" THEN out ELSE live_out
           printed == Append(lines, Line(call, InPath(call.package, call.visited)))
           res == Lookup(mode, call.package)
           deps == FilterDeps(filter_sub, OrEmpty(res))
       IN IF Excluded(filter_sub, call.package)
          THEN /\ calls' = Tail(calls)
               /\ UNCHANGED <<inputs, pc, exit_code, err, direct, root_package,
                              builder, out, live_out, lookups>>
          ELSE IF InPath(call.package, call.visited)
          THEN /\ calls' = Tail(calls)
               /\ out' = IF mode = "render" THEN printed ELSE out
               /\ live_out' = IF mode = "render" THEN live_out ELSE printed
               /\ UNCHANGED <<inputs, pc, exit_code, err, direct, root_package,
                              builder, lookups>>
          ELSE IF ~res.ok /\ ~RendererCatches(res.exc)
          THEN Uncaught
          ELSE /\ calls' = ChildCalls(call, deps) \o Tail(calls)
               /\ out' = IF mode = "render" THEN printed ELSE out
               /\ live_out' = IF mode = "render" THEN live_out ELSE printed
               /\ lookups' = Append(lookups, call.package)
               /\ UNCHANGED <<inputs, pc, exit_code, err, direct, root_package,
                              builder>>

\* ------------------------------------------------------- main, tree mode

\* The loop ends (stack empty), the graph is returned, and main calls
\* print_ascii_tree on the root with get_deps_from_graph.
BuildReturn ==
    /\ pc = "build"
    /\ stack = <<>>
    /\ pc' = "render"
    /\ calls' = <<RootCall(root_package)>>
    /\ UNCHANGED <<inputs, exit_code, err, direct, root_package, builder, out,
                   live_out, lookups>>

RenderGraph == RenderStep("render")

\* print_ascii_tree has returned: main ends, exit status 0.
MainEnd ==
    /\ pc = "render"
    /\ calls = <<>>
    /\ pc' = "exit"
    /\ exit_code' = 0
    /\ UNCHANGED <<inputs, err, direct, root_package, builder, renderer>>

\* ------------------------------------------- print_ascii_tree, live mode

\* The same rendering asked for in live mode: print_ascii_tree with
\* get_deps_func and main's test_graph / base_repo_url, after main's tree.
LiveStart ==
    /\ pc = "exit"
    /\ exit_code = 0
    /\ ascii_tree
    /\ pc' = "live"
    /\ calls' = <<RootCall(root_package)>>
    /\ UNCHANGED <<inputs, exit_code, err, direct, root_package, builder, out,
                   live_out, lookups>>

RenderLive == RenderStep("live")

LiveEnd ==
    /\ pc = "live"
    /\ calls = <<>>
    /\ pc' = "done"
    /\ UNCHANGED <<inputs, exit_code, err, direct, root_package, builder, renderer>>

\* ------------------------------------------------------------ specification

Next ==
    \/ MainFile
    \/ MainUrl
    \/ MainDirect
    \/ BuildStep
    \/ BuildReturn
    \/ RenderGraph
    \/ MainEnd
    \/ LiveStart
    \/ RenderLive
    \/ LiveEnd

Spec == Init /\ [][Next]_vars

\* The runs that build and render a tree from a repository read over the
\* network: main with --ascii-tree and --test-mode url, the mode in which a
\* call of the source can raise.  The builder and the renderer take the same
\* steps in file mode, where an identifier absent from the test graph gives
\* the empty list that a caught exception gives here.
TreeInit == Init /\ ascii_tree /\ test_mode = "url"

TreeNext ==
    \/ MainUrl
    \/ BuildStep
    \/ BuildReturn
    \/ RenderGraph
    \/ MainEnd
    \/ LiveStart
    \/ RenderLive
    \/ LiveEnd

\* The program is one thread that runs until it ends: a step that can be
\* taken is taken.
FairSpec == TreeInit /\ [][TreeNext]_vars /\ WF_vars(TreeNext)

\* ------------------------------------------------- vocabulary of the claims

\* An identifier contains the filter substring.
ContainsFilter(id) == filter_sub # <<>> /\ IsSubstring(filter_sub, id)

\* The list without the identifiers that contain the filter substring.
WithoutFiltered(deps) == SelectSeq(deps, LAMBDA d : ~ContainsFilter(d))

\* Resolving the identifier fails.
Fails(id) == test_mode = "url" /\ id \in bad

\* What the Dependency Source answers for an identifier, [] when it fails.
SourceDeps(id) == IF id \in bad THEN <<>> ELSE repo[id]

\* The filtered dependency list of an identifier.
FilteredDeps(id) == WithoutFiltered(SourceDeps(id))

\* The list the traversal goes on with: nothing below an identifier the
\* filter excludes.
WalkedDeps(id) == IF ContainsFilter(id) THEN <<>> ELSE FilteredDeps(id)

Range(xs) == {xs[i] : i \in 1..Len(xs)}

Count(xs, x) == Cardinality({i \in 1..Len(xs) : xs[i] = x})

NoDup(xs) == \A i, j \in 1..Len(xs) : xs[i] = xs[j] => i = j

\* The identifiers reachable from those of S along the edges E, a function
\* from each identifier to its list.
RECURSIVE ReachFrom(_, _)
ReachFrom(S, E) ==
    LET more == S \cup UNION {Range(E[x]) : x \in S}
    IN IF more = S THEN S ELSE ReachFrom(more, E)

SourceEdges == [x \in Ids |-> SourceDeps(x)]

WalkedEdges == [x \in Ids |-> WalkedDeps(x)]

\* No identifier reachable from the root reaches itself.
Acyclic(root) ==
    \A x \in ReachFrom({root}, SourceEdges) :
        x \notin ReachFrom(Range(SourceDeps(x)), SourceEdges)

\* The build has returned its graph to main.
Built == ascii_tree /\ pc \in {"render", "live", "done"} \cup
                              (IF exit_code = 0 THEN {"exit"} ELSE {})

\* main's tree is printed in full.
TreePrinted == ascii_tree /\ exit_code = 0 /\ pc \in {"exit", "live", "done"}

\* The depth of a line: the number of four-character units before its connector.
Depth(line) == Len(line.prefix)

\* The line a line hangs under: the last earlier line one level up (0: none).
Parent(O, i) ==
    LET up == {j \in 1..(i - 1) : Depth(O[j]) = Depth(O[i]) - 1}
    IN IF up = {} THEN 0 ELSE CHOOSE j \in up : \A k \in up : k <= j

\* The identifiers on the path from the root line down to the parent of line i.
RECURSIVE AncestorPath(_, _)
AncestorPath(O, i) ==
    LET p == Parent(O, i)
    IN IF p = 0 THEN {} ELSE {O[p].package} \cup AncestorPath(O, p)

\* The lines directly under line i, in the order printed.
Children(O, i) == SelectSeq([j \in 1..Len(O) |-> j], LAMBDA j : Parent(O, j) = i)

\* ------------------------------------------------------------------ claims

\* The identifiers reachable from the root in the source graph.
Reachable == ReachFrom({root_package}, SourceEdges)

NoFilterNoFailure == filter_sub = <<>> /\ \A x \in Reachable : ~Fails(x)

\* C1: on an acyclic source graph, with no filter and no resolution failure,
\* the builder resolves and records every identifier reachable from the root
\* exactly once (no key is written a second time), and the keys of the graph
\* it returns are exactly the identifiers reachable from the root.
C1_EachReachableOnce ==
    ((pc = "build" \/ Built) /\ Acyclic(root_package) /\ NoFilterNoFailure) =>
        /\ NoDup(recorded)
        /\ NoDup(resolved)
        /\ Built => /\ Keys(graph) = Reachable
                    /\ Range(recorded) = Reachable
                    /\ Range(resolved) = Reachable

\* C1's case: a graph was returned for an acyclic repository in which all
\* three identifiers are reachable and one of them along two paths.
C1_Witness ==
    /\ pc = "render"
    /\ Acyclic(root_package)
    /\ NoFilterNoFailure
    /\ Cardinality(Keys(graph)) = 3
    /\ \E x, y, z \in Ids :
          /\ y # z
          /\ InList(x, SourceDeps(y))
          /\ InList(x, SourceDeps(z))

\* C2: on every source graph, cyclic or not, whatever the filter and the
\* failures, the builder's loop ends and the graph is returned, and an
\* identifier in the visited set is never expanded (recorded, resolved) again.
C2_BuildTerminates ==
    /\ (pc = "build") ~> (pc = "render")
    /\ [](NoDup(recorded))
    /\ [][\A x \in visited : /\ Count(recorded', x) = Count(recorded, x)
                             /\ Count(resolved', x) = Count(resolved, x)]_vars

\* C2's case: the graph returned has a back-edge to an identifier that was in
\* progress: two identifiers that depend on each other.
C2_Witness ==
    /\ pc = "render"
    /\ \E x, y \in Keys(graph) :
          /\ x # y
          /\ InList(y, DictGet(graph, x))
          /\ InList(x, DictGet(graph, y))

\* The identifier of a call of print_ascii_tree is in its ancestor path, and
\* the filter lets the call through.
CycleCall ==
    /\ pc \in {"render", "live"}
    /\ calls # <<>>
    /\ ~ContainsFilter(Head(calls).package)
    /\ InList(Head(calls).package, Head(calls).visited)

\* In the lines O: a line carries the cycle marker exactly when its identifier
\* is on its ancestor path, and no line hangs under a cycle line.
CycleLinesRight(O) ==
    \A i \in 1..Len(O) :
        /\ O[i].cycle <=> O[i].package \in AncestorPath(O, i)
        /\ O[i].cycle => (i = Len(O) \/ Depth(O[i + 1]) <= Depth(O[i]))

\* The identifiers of the lines without the cycle marker, in order.
PlainPackages(O) ==
    LET plain == SelectSeq(O, LAMBDA l : ~l.cycle)
    IN [i \in 1..Len(plain) |-> plain[i].package]

\* C3: an identifier that is already on its ancestor path is printed as one
\* line with the cycle marker, without a dependency lookup and with nothing
\* under it; an identifier that is not on its ancestor path never gets the
\* marker; and every rendering ends: no call of print_ascii_tree stays pending.
C3_CycleMarkedOnce ==
    /\ [](CycleLinesRight(out) /\ CycleLinesRight(live_out))
    /\ [](lookups = PlainPackages(out \o live_out))
    /\ [][CycleCall =>
            LET O == out' \o live_out'
            IN /\ Len(O) = Len(out \o live_out) + 1
               /\ O[Len(O)].cycle
               /\ O[Len(O)].package = Head(calls).package
               /\ lookups' = lookups
               /\ calls' = Tail(calls)]_vars
    /\ (pc \in {"render", "live"}) ~> (calls = <<>>)

\* C3's case: a finished tree with a cycle line that is not its last line.
C3_Witness ==
    /\ pc = "done"
    /\ \E i \in 1..(Len(out) - 1) : out[i].cycle

\* In the lines O: no identifier contains the filter substring, the first
\* line is the root's, and every other line hangs under the line of an
\* identifier that has it as a dependency.
OnlyUnfiltered(O) ==
    \A i \in 1..Len(O) :
        /\ ~ContainsFilter(O[i].package)
        /\ Depth(O[i]) = 0 => (i = 1 /\ O[i].package = root_package)
        /\ Depth(O[i]) > 0 =>
              /\ Parent(O, i) # 0
              /\ InList(O[i].package, SourceDeps(O[Parent(O, i)].package))

\* C4: no line of a tree names an identifier that contains the filter
\* substring, as a node or as a child; nothing is rendered except under the
\* line of its parent; a root that contains the filter gives no output.
C4_FilteredNeverRendered ==
    /\ OnlyUnfiltered(out)
    /\ OnlyUnfiltered(live_out)
    /\ (TreePrinted /\ ContainsFilter(root_package)) => out = <<>>
    /\ (pc = "done" /\ ContainsFilter(root_package)) => live_out = <<>>

\* C4's case: a finished tree, under a filter, of a repository where a
\* rendered identifier depends on an excluded one that has dependencies.
C4_Witness ==
    /\ pc = "done"
    /\ out # <<>>
    /\ \E i \in 1..Len(out) : \E d \in Range(SourceDeps(out[i].package)) :
          ContainsFilter(d) /\ SourceDeps(d) # <<>>

Fixture == (A :> <<B, C>>) @@ (B :> <<C>>) @@ (C :> <<>>)

Texts(O) == [i \in 1..Len(O) |-> Text(O[i])]

\* The root line bare, then the children with depth - 1 indent units.
FixtureTree ==
    << <<"A">>, <<TEE, "B">>, <<BAR, CORNER, "C">>, <<CORNER, "C">> >>

\* C5: the fixture {A: [B, C], B: [C], C: []} rendered from A with no filter
\* gives the four lines A / tee B / bar corner C / corner C, the root line
\* being the bare identifier.
C5_FixtureTree ==
    (TreePrinted /\ repo = Fixture /\ bad = {} /\ root_package = A
        /\ filter_sub = <<>>) => Texts(out) = FixtureTree

\* C6: an identifier whose resolution fails is recorded with an empty list,
\* the build is not abandoned (main exits with 1 only before the build has
\* begun), and the graph returned holds every identifier reachable from the
\* root through the lists of the identifiers that resolved.
C6_FailureRecordedEmpty ==
    /\ (ascii_tree /\ exit_code = 1) => stack = <<>>
    /\ \A x \in visited :
          (Fails(x) /\ InList(x, resolved)) =>
              (x \in Keys(graph) /\ DictGet(graph, x) = <<>>)
    /\ Built => Keys(graph) = ReachFrom({root_package}, WalkedEdges)

\* C6's case: a graph was returned in which an identifier other than the
\* root failed to resolve and another identifier was recorded after it.
C6_Witness ==
    /\ pc = "render"
    /\ \E i \in 1..Len(recorded) :
          /\ Fails(recorded[i])
          /\ InList(recorded[i], resolved)
          /\ 1 < i
          /\ i < Len(recorded)

\* Resolving the root was tried and failed.
RootFailed ==
    /\ resolved # <<>>
    /\ resolved[1] = root_package
    /\ Fails(root_package)

GraphEdges == [x \in Ids |-> DictGet(graph, x)]

\* In the lines O, whose dependency lookup gave the lists E: the lines under
\* a line without the cycle marker are the identifiers of its list that do
\* not contain the filter, in the list's order, the last one with the corner
\* connector and the earlier ones with the tee.
ChildrenAsLookedUp(O, E) ==
    \A i \in 1..Len(O) :
        ~O[i].cycle =>
            LET ch == Children(O, i)
                want == WithoutFiltered(E[O[i].package])
            IN /\ Len(ch) = Len(want)
               /\ \A k \in 1..Len(want) :
                     /\ O[ch[k]].package = want[k]
                     /\ O[ch[k]].connector = IF k = Len(want) THEN CORNER ELSE TEE

\* C8: the children of a rendered identifier are the identifiers its lookup
\* returned, in that order, without those the filter excludes, and the corner
\* connector goes to the last child that remains, the tee to the earlier ones.
C8_ChildrenInLookupOrder ==
    /\ TreePrinted => ChildrenAsLookedUp(out, GraphEdges)
    /\ pc = "done" => ChildrenAsLookedUp(live_out, SourceEdges)

\* C8's case: a finished tree with a line whose identifier has three
\* dependencies, the last of them excluded by the filter.
C8_Witness ==
    /\ pc = "done"
    /\ \E i \in 1..Len(live_out) :
          LET ds == SourceDeps(live_out[i].package)
          IN /\ ~live_out[i].cycle
             /\ Len(ds) = 3
             /\ ContainsFilter(ds[3])
             /\ ~ContainsFilter(ds[1])
             /\ ~ContainsFilter(ds[2])

\* The preorder of the recursive depth-first traversal along the lists E:
\* visit(n) appends n, then visits the identifiers of E[n] from left to right
\* that are not visited yet.
RECURSIVE DfsVisit(_, _, _)
RECURSIVE DfsEach(_, _, _)
DfsVisit(n, order, E) ==
    IF InList(n, order) THEN order ELSE DfsEach(E[n], Append(order, n), E)
DfsEach(ds, order, E) ==
    IF ds = <<>> THEN order
    ELSE DfsEach(Tail(ds), DfsVisit(Head(ds), order, E), E)

FilteredEdges == [x \in Ids |-> FilteredDeps(x)]

\* C9 as stated: the keys of the returned graph are, in insertion order, the
\* preorder of the recursive depth-first traversal from the root along every
\* identifier's filtered dependency list.
C9_PreorderOfFilteredLists ==
    Built => KeyOrder(graph) = DfsVisit(root_package, <<>>, FilteredEdges)

\* C9 as amended: the same, the traversal not walking the dependencies of an
\* identifier that the filter excludes (which only the root can be); the keys
\* are in the order in which the identifiers were first popped and recorded.
C9_PreorderOfWalkedLists ==
    Built => /\ KeyOrder(graph) = DfsVisit(root_package, <<>>, WalkedEdges)
             /\ KeyOrder(graph) = recorded

\* C9's case: main has ended after a build in which an identifier was found
\* along two paths, from two other identifiers, all three recorded.
C9_Witness ==
    /\ pc = "exit"
    /\ TreePrinted
    /\ Len(graph) = 3
    /\ \E x, y, z \in Ids :
          /\ x # y /\ x # z /\ y # z
          /\ InList(x, DictGet(graph, y))
          /\ InList(x, DictGet(graph, z))

\* C10: the tree rendered from the built graph and the tree rendered from
\* the Dependency Source are the same lines, and every identifier the
\* renderer looks up in the graph is one of its keys.
C10_GraphModeIsLiveMode ==
    /\ (pc = "render" \/ (pc = "exit" /\ TreePrinted)) =>
          Range(lookups) \subseteq Keys(graph)
    /\ pc = "done" => Texts(out) = Texts(live_out)

\* C10's case: both trees are printed, of at least three lines, under a
\* filter and with an identifier in them whose resolution fails.
C10_Witness ==
    /\ pc = "done"
    /\ filter_sub # <<>>
    /\ Len(live_out) >= 3
    /\ \E x \in Range(lookups) : Fails(x)

====
